---- MODULE Spec2Model ----
(***************************************************************************)
(* Checkpointed bulk ingestion: 02_ingest/ingest_elasticsearch.py (the     *)
(* search-index sink, "es") and 02_ingest/ingest_pinecone.py (the          *)
(* vector-store sink, "pc").  A behaviour is a sequence of runs of one of  *)
(* the two programs against one data directory and that program's own      *)
(* progress file; a run may be interrupted (KeyboardInterrupt) at any step  *)
(* or die on an uncaught exception.                                        *)
(***************************************************************************)
EXTENDS Integers, Sequences, FiniteSets, TLC

\* ------------------------------------------------------------------ bounds
MaxFiles == 2        \* batch files the data directory may hold
MaxRuns == 2         \* runs of the program in one behaviour
MaxInitLines == 1    \* lines already in the progress file before the first run

\* ------------------------------------------------------- program constants
BATCH_SIZE == 100
MAX_VECTORS == 10000
CHUNK_SIZE == 1000

\* Characters are their code points.
NEWLINE == 10
WHITESPACE == {9, 10, 11, 12, 13, 32}

VARIABLES
    env,             \* the names of the environment variables that hold a value
    sink,            \* which program runs: "es" or "pc"
    data_dir,        \* DATA_DIR: file name -> content (a key of FileCatalogue)
    done_file,       \* PROGRESS_FILE: [exists, text]
    es_index,        \* the search index: [exists, refresh_interval, number_of_replicas]
    run,             \* number of runs started
    pc,              \* position of the current run in main()
    exc,             \* the exception that ended the run, "none" otherwise
    current_count,   \* main: stats.total_vector_count read at startup (pc)
    batch_files,     \* main: the work list
    i,               \* main: 1-based position of the loop in batch_files
    off,             \* ingest_batch: records of the current batch handed to the sink
    success_count,   \* ingest_batch
    error_count,     \* ingest_batch
    total_success,   \* main
    total_errors,    \* main
    \* history of the calls made, kept for the properties
    store_at_start,  \* text lines of the progress file when the run started
    sent,            \* file name -> records submitted to the sink in this run
    marks,           \* names passed to mark_batch_complete in this run, in order
    returned,        \* results of ingest_batch in this run: [name, success, errors]
    dispatched,      \* names passed to ingest_batch in this run, in order
    gate_stopped,    \* this run stopped on the capacity limit
    finalize_calls,  \* times this run restored the index settings
    last_outcome,    \* how the run before this one ended, "none" for the first
    total_sent,      \* file name -> records submitted to the sink in all runs
    appended,        \* names whose append to the progress file has completed
    contacted        \* this run has called the destination

prog == <<pc, exc, current_count, batch_files, i, off, success_count, error_count,
          total_success, total_errors>>
hist == <<store_at_start, sent, marks, returned, dispatched, gate_stopped,
          finalize_calls, last_outcome, total_sent, appended>>
vars == <<env, sink, data_dir, done_file, es_index, run, prog, hist, contacted>>

\* ------------------------------------------------------------ small helpers
Min(a, b) == IF a < b THEN a ELSE b

SeqToSet(s) == {s[k] : k \in 1..Len(s)}

Count(s, x) == Cardinality({k \in 1..Len(s) : s[k] = x})

Last(s) == s[Len(s)]

Rep(n, F(_)) == [k \in 1..n |-> F(k)]

RECURSIVE Concat(_)
Concat(ss) == IF ss = <<>> THEN <<>> ELSE Head(ss) \o Concat(Tail(ss))

\* ------------------------------------------------------------- file names
\* The part of a batch file name that varies: the digits of its number and
\* the "." of ".jsonl" ("elasticsearch_batch_" and "jsonl" are common to all).
\* The numbers start at 9 and are not zero-padded, so the order of the names
\* is not the order of the numbers.
Digits(n) == IF n < 10 THEN <<48 + n>> ELSE <<48 + (n \div 10), 48 + (n % 10)>>

FileName(k) == Digits(8 + k) \o <<46>>

AllNames == {FileName(k) : k \in 1..MaxFiles}

\* A name recorded by an earlier run whose batch file is no longer there.
StaleName == Digits(7) \o <<46>>

\* str.__lt__: code-point lexicographic order, a proper prefix is smaller.
LexLess(a, b) ==
    \E k \in 1..(Min(Len(a), Len(b)) + 1) :
        /\ \A j \in 1..(k - 1) : a[j] = b[j]
        /\ \/ k > Len(a) /\ k <= Len(b)
           \/ k <= Len(a) /\ k <= Len(b) /\ a[k] < b[k]

\* Sorted, changed: the names in the order of their numbers (shorter first).
Sorted_ByNumber(S) ==
    CHOOSE s \in [1..Cardinality(S) -> S] :
        /\ \A a \in S : \E k \in 1..Cardinality(S) : s[k] = a
        /\ \A j, k \in 1..Cardinality(S) :
              j < k => \/ Len(s[j]) < Len(s[k])
                       \/ Len(s[j]) = Len(s[k]) /\ LexLess(s[j], s[k])

\* sorted(DATA_DIR.glob(...)): the names in ascending order.
Sorted(S) ==
    CHOOSE s \in [1..Cardinality(S) -> S] :
        /\ \A a \in S : \E k \in 1..Cardinality(S) : s[k] = a
        /\ \A j, k \in 1..Cardinality(S) : j < k => LexLess(s[j], s[k])

\* ------------------------------------------------------ batch file content
RecordFields == {"id", "embedding", "title", "text", "chunk_index", "text_length"}

\* The fields of a record line the metadata of a vector is taken from.
OptionalFields == {"title", "text", "chunk_index", "text_length"}

\* The decimal digits of n.
RECURSIVE Decimal(_)
Decimal(n) == IF n < 10 THEN <<48 + n>> ELSE Decimal(n \div 10) \o <<48 + (n % 10)>>

\* The "id" of the n-th record of a file, a string: "d<n>", and with a
\* non-ASCII first letter for every third record, "\u00e9<n>" or "\u20ac<n>".
DocId(n) ==
    (IF n % 6 = 0 THEN <<8364>> ELSE IF n % 3 = 0 THEN <<233>> ELSE <<100>>)
        \o Decimal(n)

\* One line of a batch file: whether json.loads accepts it, and for an object
\* its top-level keys and its "id".
Doc(n) == [json |-> TRUE, keys |-> RecordFields, id |-> DocId(n)]
IndexLine == [json |-> TRUE, keys |-> {"index"}, id |-> <<>>]
BadLine == [json |-> FALSE, keys |-> {}, id |-> <<>>]

\* A record line that lacks the given fields.
Without(line, fields) == [line EXCEPT !.keys = @ \ fields]

Docs(n) == Rep(n, Doc)

\* The contents the batch files of the data directory are drawn from.
CoreContents == {"fifty", "onefifty", "malformed"}

\* The contents a batch file may have.
FileCatalogue ==
    [ fifty       |-> Concat([k \in 1..50 |-> <<IndexLine, Doc(k)>>]),
      onefifty    |-> Docs(150),
      malformed   |-> Docs(6) \o <<BadLine>> \o <<Doc(7)>>,
      controls    |-> <<IndexLine, Doc(1), IndexLine, IndexLine, Doc(2), Doc(3),
                        IndexLine>>,
      twohundred  |-> Docs(2 * BATCH_SIZE),
      twofifty    |-> Docs(250),
      bare        |-> <<Doc(1), Without(Doc(2), OptionalFields), Doc(3)>>,
      noembedding |-> <<Doc(1), Doc(2), Without(Doc(3), {"embedding"}), Doc(4)>>,
      noid        |-> <<Doc(1), Doc(2), Without(Doc(3), {"id"}), Doc(4)>>,
      longbad     |-> Docs(CHUNK_SIZE + 1) \o <<BadLine>> ]

\* "index" in doc
IsIndexLine(line) == "index" \in line.keys

\* The exception the search-index generator raises on a line, "none" if none:
\* json.loads(line), then doc["id"] for a record line.
EsLineError(line) ==
    IF ~line.json THEN "JSONDecodeError"
    ELSE IF IsIndexLine(line) THEN "none"
    ELSE IF "id" \notin line.keys THEN "KeyError"
    ELSE "none"

\* The exception the vector-store loader raises on a line, "none" if none:
\* json.loads(line), then doc[...] of every field for a record line.
PcLineError(line) ==
    IF ~line.json THEN "JSONDecodeError"
    ELSE IF IsIndexLine(line) THEN "none"
    ELSE IF ~(RecordFields \subseteq line.keys) THEN "KeyError"
    ELSE "none"

LineError(s, line) == IF s = "es" THEN EsLineError(line) ELSE PcLineError(line)

\* Index of the first line that raises, Len + 1 if no line does.
FirstError(s, lines) ==
    IF \E k \in 1..Len(lines) : LineError(s, lines[k]) # "none"
    THEN CHOOSE k \in 1..Len(lines) :
            /\ LineError(s, lines[k]) # "none"
            /\ \A j \in 1..(k - 1) : LineError(s, lines[j]) = "none"
    ELSE Len(lines) + 1

\* IsRecordLine, changed: control lines are not skipped.
IsRecordLine_All(line) == line.json

IsRecordLine(line) == line.json /\ ~IsIndexLine(line)

\* The records of a file: its lines without the control lines, in order.
Records(lines) == SelectSeq(lines, IsRecordLine)

\* What the reader yields before it raises or reaches the end of the file.
Yielded(s, lines) == Records(SubSeq(lines, 1, FirstError(s, lines) - 1))

Raises(s, lines) == FirstError(s, lines) <= Len(lines)

\* ----------------------------------------------------------- sanitize_id
\* str.encode('utf-8') of one code point (below 2^16).
Utf8(c) ==
    IF c < 128 THEN <<c>>
    ELSE IF c < 2048 THEN <<192 + (c \div 64), 128 + (c % 64)>>
    ELSE <<224 + (c \div 4096), 128 + ((c \div 64) % 64), 128 + (c % 64)>>

encode_utf8(doc_id) == Concat([k \in 1..Len(doc_id) |-> Utf8(doc_id[k])])

\* The characters 0-9 and a-f.
HexDigits == (48..57) \cup (97..102)

HexChar(d) == IF d < 10 THEN 48 + d ELSE 87 + d

RECURSIVE Sum(_)
Sum(bytes) == IF bytes = <<>> THEN 0 ELSE Head(bytes) + Sum(Tail(bytes))

\* hashlib.md5(bytes).hexdigest(): 32 hexadecimal digits that depend on the
\* bytes only.  The digest itself is the library's; a checksum stands for it.
md5_hexdigest(bytes) ==
    [k \in 1..32 |-> HexChar((Sum(bytes) * k + Len(bytes) + k * k) % 16)]

\* "doc_"
DocPrefix == <<100, 111, 99, 95>>

\* doc_id.encode('ascii') succeeds
IsAscii(doc_id) == \A k \in 1..Len(doc_id) : doc_id[k] < 128

\* sanitize_id, changed: every id is replaced by its hash.
sanitize_id_AlwaysHash(doc_id) == DocPrefix \o md5_hexdigest(encode_utf8(doc_id))

\* sanitize_id
sanitize_id(doc_id) ==
    IF IsAscii(doc_id) THEN doc_id
    ELSE DocPrefix \o md5_hexdigest(encode_utf8(doc_id))

\* What the reader hands on for one record line: the vector
\* load_vectors_from_batch appends, the action generate_actions_for_batch
\* yields.
Item(s, doc) ==
    IF s = "pc"
    THEN [id |-> sanitize_id(doc.id), original_id |-> doc.id]
    ELSE [id |-> doc.id, original_id |-> doc.id]

\* What reading a file of each content gives each program: the number of
\* records yielded, whether the reader then raises, the exception, and the
\* records handed on, in order.
ReadResult ==
    [s \in {"es", "pc"} |->
        [c \in DOMAIN FileCatalogue |->
            LET lines == FileCatalogue[c]
                first == FirstError(s, lines)
                docs == Records(SubSeq(lines, 1, first - 1))
            IN  [yielded |-> Len(docs),
                 raises  |-> first <= Len(lines),
                 error   |-> IF first <= Len(lines)
                             THEN LineError(s, lines[first])
                             ELSE "none",
                 records |-> Len(Records(lines)),
                 items   |-> [k \in 1..Len(docs) |-> Item(s, docs[k])],
                 json    |-> \A k \in 1..Len(lines) : lines[k].json]]]

\* Reading batch file f in the running program.
Read(f) == ReadResult[sink][data_dir[f]]

NRecords(f) == Read(f).records

\* ---------------------------------------------------------- progress file
\* str.strip(): without leading and trailing whitespace.
Strip(t) ==
    LET keep == {k \in 1..Len(t) : t[k] \notin WHITESPACE}
    IN  IF keep = {} THEN <<>>
        ELSE SubSeq(t, CHOOSE k \in keep : \A j \in keep : k <= j,
                       CHOOSE k \in keep : \A j \in keep : k >= j)

\* str.split("\n"): the pieces between the newlines; one piece, maybe empty,
\* when there is no newline.
RECURSIVE Split(_)
Split(t) ==
    IF \A k \in 1..Len(t) : t[k] # NEWLINE THEN <<t>>
    ELSE LET n == CHOOSE k \in 1..Len(t) :
                    /\ t[k] = NEWLINE
                    /\ \A j \in 1..(k - 1) : t[j] # NEWLINE
         IN  <<SubSeq(t, 1, n - 1)>> \o Split(SubSeq(t, n + 1, Len(t)))

\* load_completed_batches()
load_completed_batches(file) ==
    IF ~file.exists THEN {}
    ELSE SeqToSet(Split(Strip(file.text)))

\* WriteLine, changed: the newline is left out.
WriteLine_NoNewline(text, filename) == text \o filename

\* f.write(f"{filename}\n") on a file opened for append
WriteLine(text, filename) == text \o filename \o <<NEWLINE>>

\* The text of a progress file that holds the given names, one per line.
TextOf(names) == Concat([k \in 1..Len(names) |-> names[k] \o <<NEWLINE>>])

\* The names on the lines of a progress file text, read line by line.
RECURSIVE LinesOf(_)
LinesOf(t) ==
    IF t = <<>> THEN {}
    ELSE IF \A k \in 1..Len(t) : t[k] # NEWLINE THEN {t}
    ELSE LET n == CHOOSE k \in 1..Len(t) :
                    /\ t[k] = NEWLINE
                    /\ \A j \in 1..(k - 1) : t[j] # NEWLINE
         IN  {SubSeq(t, 1, n - 1)} \cup LinesOf(SubSeq(t, n + 1, Len(t)))

\* ------------------------------------------------------------------ Init
\* The counts the vector store may report at startup.
StartCounts == {0, MAX_VECTORS - 30, MAX_VECTORS}

InitNames ==
    UNION {[1..n -> AllNames \cup {StaleName}] : n \in 0..MaxInitLines}

NoFiles == [f \in AllNames |-> 0]

WriteOptimized == [exists |-> TRUE, refresh_interval |-> "-1", number_of_replicas |-> 0]
NormalSettings == [exists |-> TRUE, refresh_interval |-> "1s", number_of_replicas |-> 1]
NoIndex == [exists |-> FALSE, refresh_interval |-> "1s", number_of_replicas |-> 1]

\* ------------------------------------------------------------ configuration
\* The environment variables each program requires.
Required(s) ==
    IF s = "es" THEN {"ELASTICSEARCH_ENDPOINT", "ELASTICSEARCH_API_KEY", "INDEX_NAME"}
    ELSE {"PINECONE_API_KEY", "PINECONE_INDEX_NAME"}

\* What os.getenv gives for a variable: None, "" or a non-empty string.
Values == {"unset", "empty", "set"}

AllSet(s) == [v \in Required(s) |-> "set"]

\* Truthy, changed: only None counts as missing.
Truthy_NotNone(x) == x # "unset"

\* bool(x) inside all([...]): None and "" are false.
Truthy(x) == x = "set"

\* The exception the configuration raises before main() does anything else,
\* "none" if none: os.getenv("INDEX_NAME").lower() at import of the search-index
\* program, then the all([...]) test at the top of main().
ConfigException(s, e) ==
    IF s = "es" /\ e["INDEX_NAME"] = "unset" THEN "AttributeError"
    ELSE IF \E v \in Required(s) : ~Truthy(e[v]) THEN "ValueError"
    ELSE "none"

\* The state before the first run, for batch files of the given contents.
InitWith(contents) ==
    /\ sink \in {"es", "pc"}
    /\ contacted = FALSE
    /\ data_dir \in UNION {[S -> contents] : S \in SUBSET AllNames}
    /\ \E names \in InitNames, ex \in BOOLEAN :
          /\ ~ex => names = <<>>
          /\ done_file = [exists |-> ex, text |-> TextOf(names)]
          /\ appended = SeqToSet(names)
    /\ es_index \in (IF sink = "es" THEN {NoIndex, NormalSettings} ELSE {NoIndex})
    /\ run = 0
    /\ pc = "idle"
    /\ exc = "none"
    /\ current_count = 0
    /\ batch_files = <<>>
    /\ i = 0
    /\ off = 0
    /\ success_count = 0
    /\ error_count = 0
    /\ total_success = 0
    /\ total_errors = 0
    /\ store_at_start = {}
    /\ sent = NoFiles
    /\ marks = <<>>
    /\ returned = <<>>
    /\ dispatched = <<>>
    /\ gate_stopped = FALSE
    /\ finalize_calls = 0
    /\ last_outcome = "none"
    /\ total_sent = NoFiles

\* Every required environment variable holds a value.
Init ==
    /\ InitWith(CoreContents)
    /\ env = AllSet(sink)

\* --------------------------------------------------------------- the runs
Ended == {"done", "crashed", "interrupted"}
Active == {"prepare", "discover", "loop", "load", "upsert", "bulk", "ret",
           "mark", "write", "finalize"}

\* How the run that just ended ended.
Outcome == IF pc = "done" /\ gate_stopped THEN "stopped" ELSE pc

\* python ingest_<sink>.py is started (again).
StartRun ==
    /\ pc \in Ended \cup {"idle"}
    /\ run < MaxRuns
    /\ run' = run + 1
    /\ pc' = "prepare"
    /\ exc' = "none"
    /\ current_count' = 0
    /\ batch_files' = <<>>
    /\ i' = 0
    /\ off' = 0
    /\ success_count' = 0
    /\ error_count' = 0
    /\ total_success' = 0
    /\ total_errors' = 0
    /\ store_at_start' = IF done_file.exists THEN LinesOf(done_file.text) ELSE {}
    /\ sent' = NoFiles
    /\ marks' = <<>>
    /\ returned' = <<>>
    /\ dispatched' = <<>>
    /\ gate_stopped' = FALSE
    /\ finalize_calls' = 0
    /\ last_outcome' = IF pc = "idle" THEN "none" ELSE Outcome
    /\ contacted' = FALSE
    /\ UNCHANGED <<env, sink, data_dir, done_file, es_index, total_sent, appended>>

\* An uncaught exception ends the run.
Die(e) ==
    /\ pc' = "crashed"
    /\ exc' = e

\* KeyboardInterrupt, at any point of a run.
Interrupt ==
    /\ pc \in Active
    /\ pc' = "interrupted"
    /\ UNCHANGED <<env, contacted, sink, data_dir, done_file, es_index, run, exc, current_count,
                   batch_files, i, off, success_count, error_count,
                   total_success, total_errors, hist>>

\* -------------------------------------------------- main(), up to the loop
\* A required environment variable is missing: the program raises before it
\* builds a client.
ConfigFails ==
    /\ pc = "prepare"
    /\ ConfigException(sink, env) # "none"
    /\ Die(ConfigException(sink, env))
    /\ UNCHANGED <<env, contacted, sink, data_dir, done_file, es_index, run,
                   current_count, batch_files, i, off, success_count, error_count,
                   total_success, total_errors, hist>>

\* ingest_elasticsearch.main: connect, then create_or_prepare_index(): the
\* index is created, or switched, with refresh disabled and no replicas.
EsPrepare ==
    /\ pc = "prepare"
    /\ sink = "es"
    /\ ConfigException(sink, env) = "none"
    /\ contacted' = TRUE
    /\ es_index' = WriteOptimized
    /\ pc' = "discover"
    /\ UNCHANGED <<env, sink, data_dir, done_file, run, exc, current_count, batch_files,
                   i, off, success_count, error_count, total_success,
                   total_errors, hist>>

\* ingest_pinecone.main: create the index if needed, read the vector count,
\* return when no capacity remains.
PcPrepare ==
    /\ pc = "prepare"
    /\ sink = "pc"
    /\ ConfigException(sink, env) = "none"
    /\ contacted' = TRUE
    /\ \E c \in StartCounts :
          /\ current_count' = c
          /\ IF MAX_VECTORS - c <= 0
             THEN pc' = "done" /\ gate_stopped' = TRUE
             ELSE pc' = "discover" /\ gate_stopped' = gate_stopped
    /\ UNCHANGED <<env, sink, data_dir, done_file, es_index, run, exc, batch_files, i,
                   off, success_count, error_count, total_success, total_errors,
                   store_at_start, sent, marks, returned, dispatched,
                   finalize_calls, last_outcome, total_sent, appended>>

\* [f for f in all_batch_files if f.name not in completed]
WorkList(all_batch_files, completed) ==
    LET NotCompleted(f) == f \notin completed
    IN  SelectSeq(all_batch_files, NotCompleted)

\* main: list the batch files, load the completed set, filter; return when
\* nothing is left.
Discover ==
    /\ pc = "discover"
    /\ LET all_batch_files == Sorted(DOMAIN data_dir)
           completed == load_completed_batches(done_file)
       IN  batch_files' = WorkList(all_batch_files, completed)
    /\ IF batch_files' = <<>>
       THEN pc' = "done" /\ i' = i
       ELSE pc' = "loop" /\ i' = 1
    /\ total_success' = 0
    /\ total_errors' = 0
    /\ UNCHANGED <<env, contacted, sink, data_dir, done_file, es_index, run, exc, current_count,
                   off, success_count, error_count, hist>>

\* ------------------------------------------------------------ the loop head
\* ShouldStop, changed: only the count read at startup is compared.
ShouldStop_StartupOnly(count, accepted) == count >= MAX_VECTORS

\* ingest_pinecone.main: current_count + total_success >= MAX_VECTORS
ShouldStop(count, accepted) == count + accepted >= MAX_VECTORS

\* The for loop is exhausted.
LoopExit ==
    /\ pc = "loop"
    /\ i > Len(batch_files)
    /\ pc' = "finalize"
    /\ UNCHANGED <<env, contacted, sink, data_dir, done_file, es_index, run, exc, current_count,
                   batch_files, i, off, success_count, error_count,
                   total_success, total_errors, hist>>

\* ingest_pinecone.main: the limit is reached, break.
GateStop ==
    /\ pc = "loop"
    /\ sink = "pc"
    /\ i <= Len(batch_files)
    /\ ShouldStop(current_count, total_success)
    /\ pc' = "finalize"
    /\ gate_stopped' = TRUE
    /\ UNCHANGED <<env, contacted, sink, data_dir, done_file, es_index, run, exc, current_count,
                   batch_files, i, off, success_count, error_count,
                   total_success, total_errors, store_at_start, sent, marks,
                   returned, dispatched, finalize_calls, last_outcome, total_sent,
                   appended>>

\* Dispatch, changed: the limit is not checked in the loop.
Dispatch_NoGate ==
    /\ pc = "loop"
    /\ i <= Len(batch_files)
    /\ pc' = IF sink = "pc" THEN "load" ELSE "bulk"
    /\ off' = 0
    /\ success_count' = 0
    /\ error_count' = 0
    /\ dispatched' = Append(dispatched, batch_files[i])
    /\ UNCHANGED <<env, contacted, sink, data_dir, done_file, es_index, run, exc, current_count,
                   batch_files, i, total_success, total_errors, store_at_start,
                   sent, marks, returned, gate_stopped, finalize_calls, last_outcome,
                   total_sent, appended>>

\* ingest_batch(..., filepath) is called for the next batch of the work list.
Dispatch ==
    /\ pc = "loop"
    /\ i <= Len(batch_files)
    /\ sink = "pc" => ~ShouldStop(current_count, total_success)
    /\ pc' = IF sink = "pc" THEN "load" ELSE "bulk"
    /\ off' = 0
    /\ success_count' = 0
    /\ error_count' = 0
    /\ dispatched' = Append(dispatched, batch_files[i])
    /\ UNCHANGED <<env, contacted, sink, data_dir, done_file, es_index, run, exc, current_count,
                   batch_files, i, total_success, total_errors, store_at_start,
                   sent, marks, returned, gate_stopped, finalize_calls, last_outcome,
                   total_sent, appended>>

\* ------------------------------------------------------------ ingest_batch
\* The batch the loop is at.
filepath == batch_files[i]

\* n records of the current batch go to the sink in one request.
Submit(n) ==
    /\ sent' = [sent EXCEPT ![filepath] = @ + n]
    /\ total_sent' = [total_sent EXCEPT ![filepath] = @ + n]

\* ingest_pinecone.load_vectors_from_batch: the whole file is read before
\* anything is written; a line that raises ends the run.
PcLoad ==
    /\ pc = "load"
    /\ IF Read(filepath).raises
       THEN Die(Read(filepath).error)
       ELSE /\ pc' = IF Read(filepath).yielded = 0 THEN "ret" ELSE "upsert"
            /\ exc' = exc
    /\ UNCHANGED <<env, contacted, sink, data_dir, done_file, es_index, run, current_count,
                   batch_files, i, off, success_count, error_count,
                   total_success, total_errors, hist>>

\* SubBatchLen, changed: every sub-batch is taken to be full.
SubBatchLen_Full(len, o) == BATCH_SIZE

\* The sub-batches range(0, len(vectors), BATCH_SIZE) cuts: the size of the one
\* that starts at offset o.
SubBatchLen(len, o) == Min(BATCH_SIZE, len - o)

\* PcUpsert, changed: the loop over the sub-batches ends at the first failure.
PcUpsert_StopOnError ==
    /\ pc = "upsert"
    /\ LET len == Read(filepath).yielded
           n == SubBatchLen(len, off)
       IN  /\ Submit(n)
           /\ off' = off + BATCH_SIZE
           /\ \E ok \in BOOLEAN :
                 IF ok
                 THEN /\ success_count' = success_count + n
                      /\ error_count' = error_count
                      /\ pc' = IF off' >= len THEN "ret" ELSE "upsert"
                 ELSE /\ error_count' = error_count + n
                      /\ success_count' = success_count
                      /\ pc' = "ret"
    /\ UNCHANGED <<env, contacted, sink, data_dir, done_file, es_index, run, exc, current_count,
                   batch_files, i, total_success, total_errors, store_at_start,
                   marks, returned, dispatched, gate_stopped, finalize_calls,
                   last_outcome, appended>>

\* ingest_pinecone.ingest_batch: one index.upsert(vectors=batch); it returns,
\* or it raises an Exception, which is caught and counted.
PcUpsert ==
    /\ pc = "upsert"
    /\ LET len == Read(filepath).yielded
           n == SubBatchLen(len, off)
       IN  /\ Submit(n)
           /\ \E ok \in BOOLEAN :
                 IF ok
                 THEN success_count' = success_count + n /\ error_count' = error_count
                 ELSE error_count' = error_count + n /\ success_count' = success_count
           /\ off' = off + BATCH_SIZE
           /\ pc' = IF off' >= len THEN "ret" ELSE "upsert"
    /\ UNCHANGED <<env, contacted, sink, data_dir, done_file, es_index, run, exc, current_count,
                   batch_files, i, total_success, total_errors, store_at_start,
                   marks, returned, dispatched, gate_stopped, finalize_calls,
                   last_outcome, appended>>

\* parallel_bulk(..., chunk_size=1000): the size of the next chunk it sends when
\* `left` records are still to come from the generator, 0 when it sends none: a
\* full chunk goes out when one more record arrives, the rest at the end of the
\* generator.
NextChunk(left, raises) ==
    IF left > CHUNK_SIZE THEN CHUNK_SIZE
    ELSE IF raises THEN 0
    ELSE left

\* The documents of a chunk the index may reject.
Rejections(n) == {0, 1, n}

\* ingest_elasticsearch.ingest_batch: one chunk is sent and its per-document
\* results are counted (raise_on_error=False).
EsBulkChunk ==
    /\ pc = "bulk"
    /\ LET n == NextChunk(Read(filepath).yielded - off, Read(filepath).raises)
       IN  /\ n > 0
           /\ Submit(n)
           /\ \E failed \in Rejections(n) :
                 /\ success_count' = success_count + (n - failed)
                 /\ error_count' = error_count + failed
           /\ off' = off + n
    /\ UNCHANGED <<env, contacted, sink, data_dir, done_file, es_index, run, pc, exc, current_count,
                   batch_files, i, total_success, total_errors, store_at_start,
                   marks, returned, dispatched, gate_stopped, finalize_calls,
                   last_outcome, appended>>

\* ingest_elasticsearch.ingest_batch: the bulk request of a chunk fails in the
\* transport (timeout, connection reset); parallel_bulk is called without
\* raise_on_exception=False, so it re-raises, and nothing catches it.
EsBulkTransportError ==
    /\ pc = "bulk"
    /\ LET n == NextChunk(Read(filepath).yielded - off, Read(filepath).raises)
       IN  /\ n > 0
           /\ Submit(n)
    /\ Die("TransportError")
    /\ UNCHANGED <<env, contacted, sink, data_dir, done_file, es_index, run, current_count,
                   batch_files, i, off, success_count, error_count,
                   total_success, total_errors, store_at_start, marks, returned,
                   dispatched, gate_stopped, finalize_calls, last_outcome, appended>>

\* ingest_elasticsearch.generate_actions_for_batch raises on a line while
\* parallel_bulk collects the next chunk; nothing catches it.
EsGeneratorRaises ==
    /\ pc = "bulk"
    /\ Read(filepath).raises
    /\ NextChunk(Read(filepath).yielded - off, TRUE) = 0
    /\ Die(Read(filepath).error)
    /\ UNCHANGED <<env, contacted, sink, data_dir, done_file, es_index, run, current_count,
                   batch_files, i, off, success_count, error_count,
                   total_success, total_errors, hist>>

\* ingest_elasticsearch.ingest_batch: the generator is exhausted and every
\* chunk is answered.
EsBulkEnd ==
    /\ pc = "bulk"
    /\ ~Read(filepath).raises
    /\ Read(filepath).yielded - off = 0
    /\ pc' = "ret"
    /\ UNCHANGED <<env, contacted, sink, data_dir, done_file, es_index, run, exc, current_count,
                   batch_files, i, off, success_count, error_count,
                   total_success, total_errors, hist>>

\* IngestReturn, changed: a batch with errors is not marked complete.
IngestReturn_SkipOnErrors ==
    /\ pc = "ret"
    /\ total_success' = total_success + success_count
    /\ total_errors' = total_errors + error_count
    /\ returned' = Append(returned, [name |-> filepath, success |-> success_count,
                                     errors |-> error_count])
    /\ IF error_count > 0
       THEN pc' = "loop" /\ i' = i + 1
       ELSE pc' = "mark" /\ i' = i
    /\ UNCHANGED <<env, contacted, sink, data_dir, done_file, es_index, run, exc, current_count,
                   batch_files, off, success_count, error_count,
                   store_at_start, sent, marks, dispatched, gate_stopped,
                   finalize_calls, last_outcome, total_sent, appended>>

\* main: success, errors = ingest_batch(...); the totals are updated.
IngestReturn ==
    /\ pc = "ret"
    /\ total_success' = total_success + success_count
    /\ total_errors' = total_errors + error_count
    /\ returned' = Append(returned, [name |-> filepath, success |-> success_count,
                                     errors |-> error_count])
    /\ pc' = "mark"
    /\ UNCHANGED <<env, contacted, sink, data_dir, done_file, es_index, run, exc, current_count,
                   batch_files, i, off, success_count, error_count,
                   store_at_start, sent, marks, dispatched, gate_stopped,
                   finalize_calls, last_outcome, total_sent, appended>>

\* MarkOpen, changed: the file is opened with "w", which truncates it.
MarkOpen_Truncate ==
    /\ pc = "mark"
    /\ done_file' = [exists |-> TRUE, text |-> <<>>]
    /\ pc' = "write"
    /\ UNCHANGED <<env, contacted, sink, data_dir, es_index, run, exc, current_count, batch_files,
                   i, off, success_count, error_count, total_success,
                   total_errors, hist>>

\* mark_batch_complete: open(PROGRESS_FILE, "a") creates the file if absent.
MarkOpen ==
    /\ pc = "mark"
    /\ done_file' = [done_file EXCEPT !.exists = TRUE]
    /\ pc' = "write"
    /\ UNCHANGED <<env, contacted, sink, data_dir, es_index, run, exc, current_count, batch_files,
                   i, off, success_count, error_count, total_success,
                   total_errors, hist>>

\* mark_batch_complete: the line is written and the file closed; the loop
\* moves to the next batch.
MarkWrite ==
    /\ pc = "write"
    /\ done_file' = [done_file EXCEPT !.text = WriteLine(@, filepath)]
    /\ marks' = Append(marks, filepath)
    /\ appended' = appended \cup {filepath}
    /\ i' = i + 1
    /\ pc' = "loop"
    /\ UNCHANGED <<env, contacted, sink, data_dir, es_index, run, exc, current_count, batch_files,
                   off, success_count, error_count, total_success, total_errors,
                   store_at_start, sent, returned, dispatched, gate_stopped,
                   finalize_calls, last_outcome, total_sent>>

\* ------------------------------------------------------- after the loop
\* ingest_elasticsearch.main: the normal index settings are put back and the
\* index is refreshed.
EsFinalize ==
    /\ pc = "finalize"
    /\ sink = "es"
    /\ es_index' = NormalSettings
    /\ finalize_calls' = finalize_calls + 1
    /\ pc' = "done"
    /\ UNCHANGED <<env, contacted, sink, data_dir, done_file, run, exc, current_count, batch_files,
                   i, off, success_count, error_count, total_success,
                   total_errors, store_at_start, sent, marks, returned,
                   dispatched, gate_stopped, last_outcome, total_sent, appended>>

\* ingest_pinecone.main: the final index stats are printed.
PcFinalize ==
    /\ pc = "finalize"
    /\ sink = "pc"
    /\ pc' = "done"
    /\ UNCHANGED <<env, contacted, sink, data_dir, done_file, es_index, run, exc, current_count,
                   batch_files, i, off, success_count, error_count,
                   total_success, total_errors, hist>>

Next ==
    \/ StartRun
    \/ Interrupt
    \/ EsPrepare
    \/ PcPrepare
    \/ Discover
    \/ LoopExit
    \/ GateStop
    \/ Dispatch
    \/ PcLoad
    \/ PcUpsert
    \/ EsBulkChunk
    \/ EsBulkTransportError
    \/ EsGeneratorRaises
    \/ EsBulkEnd
    \/ IngestReturn
    \/ MarkOpen
    \/ MarkWrite
    \/ EsFinalize
    \/ PcFinalize

Spec == Init /\ [][Next]_vars

TypeOK ==
    /\ sink \in {"es", "pc"}
    /\ pc \in Active \cup Ended \cup {"idle"}
    /\ exc \in {"none", "JSONDecodeError", "KeyError", "TransportError",
                "ValueError", "AttributeError"}
    /\ run \in 0..MaxRuns
    /\ i \in 0..(Len(batch_files) + 1)
    /\ SeqToSet(batch_files) \subseteq DOMAIN data_dir

\* The same program started on an empty checkpoint store.
FreshInit ==
    /\ Init
    /\ done_file.text = <<>>

SpecFresh == FreshInit /\ [][Next]_vars

\* The contents that exercise the readers: control lines at every position,
\* two full sub-batches, two and a half sub-batches, records without the optional fields, without
\* "embedding", without "id", and a line that is not JSON after more than one
\* chunk of records.
BatchContents == {"controls", "twohundred", "twofifty", "bare", "noembedding",
                  "noid", "longbad"}

\* The program started on an empty checkpoint store and a data directory of
\* such files.
BatchInit ==
    /\ InitWith(BatchContents)
    /\ done_file.text = <<>>
    /\ env = AllSet(sink)

SpecBatch == BatchInit /\ [][Next]_vars

\* The program started with any environment, on an empty checkpoint store.
ConfigInit ==
    /\ InitWith(CoreContents)
    /\ done_file.text = <<>>
    /\ env \in [Required(sink) -> Values]

NextConfig == Next \/ ConfigFails

SpecConfig == ConfigInit /\ [][NextConfig]_vars

\* ------------------------------------------------------- runs, repeated
\* Well-formed batch files and an empty checkpoint store.
WellFormedContents == {"fifty", "onefifty"}

LiveInit ==
    /\ InitWith(WellFormedContents)
    /\ done_file.text = <<>>
    /\ env = AllSet(sink)

\* A run is cut short from outside, by KeyboardInterrupt or by a failure of
\* the transport; this happens finitely often: not in the last run.
InterruptEarly ==
    /\ run < MaxRuns
    /\ Interrupt

TransportErrorEarly ==
    /\ run < MaxRuns
    /\ EsBulkTransportError

\* The steps the program and its operator take by themselves: a started run
\* goes on, an ended run is followed by another.  (No reader raises on a
\* well-formed file.)
Progress ==
    \/ StartRun
    \/ EsPrepare
    \/ PcPrepare
    \/ Discover
    \/ LoopExit
    \/ GateStop
    \/ Dispatch
    \/ PcLoad
    \/ PcUpsert
    \/ EsBulkChunk
    \/ EsBulkEnd
    \/ IngestReturn
    \/ MarkOpen
    \/ MarkWrite
    \/ EsFinalize
    \/ PcFinalize

NextLive ==
    \/ InterruptEarly
    \/ TransportErrorEarly
    \/ Progress

\* The program is run again and again, and every run that is not cut short
\* goes on to its end.
SpecLive == LiveInit /\ [][NextLive]_vars /\ WF_vars(Progress)

\* ------------------------------------------------------------- properties
\* The run has computed its work list.
Discovered ==
    \/ pc \in {"loop", "load", "upsert", "bulk", "ret", "mark", "write", "finalize"}
    \/ pc = "done" /\ ~(gate_stopped /\ dispatched = <<>>)

\* Every batch file can be read by the running program.
WellFormed == \A f \in DOMAIN data_dir : ~Read(f).raises

\* The file has a line that is not JSON.
Malformed(f) == ~Read(f).json

\* C1: from an empty checkpoint store, with well-formed batch files and the
\* capacity limit not reached, after a first run that ran to its end the second
\* run never enters the loop and submits nothing, and every record of every
\* batch has been submitted exactly once in total.
C1_TwoRunsSubmitOnce ==
    (run = 2 /\ last_outcome = "done" /\ WellFormed) =>
        /\ pc \in {"prepare", "discover", "done", "interrupted"}
        /\ batch_files = <<>>
        /\ \A f \in DOMAIN data_dir : sent[f] = 0 /\ total_sent[f] = NRecords(f)

C1_Witness ==
    /\ run = 2
    /\ last_outcome = "done"
    /\ WellFormed
    /\ pc = "done"
    /\ ~gate_stopped
    /\ Cardinality(DOMAIN data_dir) = 2
    /\ \A f \in DOMAIN data_dir : total_sent[f] = NRecords(f) /\ NRecords(f) > 0

\* C2: the work list of a run is exactly the batch files whose name is not on
\* a line of the checkpoint store at startup, in ascending lexicographic order;
\* no record of a recorded batch is submitted, only unrecorded batches are
\* dispatched, and a run that ends without the capacity stop has dispatched the
\* whole work list.
C2_WorkListIsUnrecordedSorted ==
    /\ \A f \in store_at_start \cap AllNames : sent[f] = 0
    /\ SeqToSet(dispatched) \cap store_at_start = {}
    /\ Discovered =>
          /\ SeqToSet(batch_files) = {f \in DOMAIN data_dir : f \notin store_at_start}
          /\ \A j, k \in 1..Len(batch_files) :
                j < k => LexLess(batch_files[j], batch_files[k])
          /\ (pc = "done" /\ ~gate_stopped) => dispatched = batch_files

C2_Witness ==
    /\ pc = "done"
    /\ ~gate_stopped
    /\ \E f, g \in DOMAIN data_dir :
          /\ f \in store_at_start
          /\ g \notin store_at_start
          /\ dispatched = <<g>>
          /\ sent[g] > 0

\* C3: every batch whose ingest_batch returned reports successes and errors
\* that add up to its number of records, and is marked complete exactly once
\* in the run, whatever the number of errors; only the batch whose result was
\* just returned may still be unmarked.
C3_ReturnedBatchMarkedOnce ==
    \A k \in 1..Len(returned) :
        /\ returned[k].success + returned[k].errors = NRecords(returned[k].name)
        /\ Count(marks, returned[k].name) <= 1
        /\ (k < Len(returned) \/ pc \in {"loop", "load", "upsert", "bulk", "ret",
                                         "finalize", "done", "crashed"})
              => Count(marks, returned[k].name) = 1

C3_Witness ==
    /\ pc = "done"
    /\ \E k \in 1..Len(returned) :
          /\ returned[k].success = 0
          /\ returned[k].errors = NRecords(returned[k].name)
          /\ returned[k].errors > BATCH_SIZE
          /\ Count(marks, returned[k].name) = 1

\* C4: in every state, interrupted ones included, each batch this run has
\* appended to the checkpoint store has had all of its records submitted to the
\* sink in this run.
C4_MarkedOnlyAfterAllSubmitted ==
    \A f \in SeqToSet(marks) : sent[f] = NRecords(f)

C4_Witness ==
    /\ pc = "interrupted"
    /\ \E k \in 1..Len(returned) :
          /\ returned[k].name \in SeqToSet(marks)
          /\ returned[k].errors > 0
          /\ sent[returned[k].name] > BATCH_SIZE
    /\ \E f \in DOMAIN data_dir : sent[f] > 0 /\ sent[f] < NRecords(f)

\* The batches of the work list the run has not dispatched.
Undispatched == {batch_files[k] : k \in (Len(dispatched) + 1)..Len(batch_files)}

\* The records the vector store has accepted in this run, those of the batch
\* being written included.
Accepted ==
    total_success + (IF pc \in {"upsert", "ret"} THEN success_count ELSE 0)

\* The capacity gate of a vector-store run: a batch is only being written when
\* the count read at startup plus the records accepted before it is below the
\* limit; a run stopped by the gate has reached the limit; only dispatched
\* batches are checkpointed and the undispatched ones are on no line of the
\* checkpoint store.
CapacityGate ==
    sink = "pc" =>
        /\ pc \in {"load", "upsert", "ret"} =>
              current_count + total_success < MAX_VECTORS
        /\ gate_stopped => current_count + total_success >= MAX_VECTORS
        /\ (pc \in {"finalize", "done"} /\ Undispatched # {}) =>
              current_count + total_success >= MAX_VECTORS
        /\ SeqToSet(marks) \subseteq SeqToSet(dispatched)
        /\ Undispatched \cap LinesOf(done_file.text) = {}

\* The scenario "limit 150, destination holds 120, batches of 50 records",
\* with the program's limit: 30 records of capacity remain at startup.
Scenario ==
    /\ sink = "pc"
    /\ pc \notin {"idle", "prepare"}
    /\ current_count = MAX_VECTORS - 30
    /\ \A f \in DOMAIN data_dir : NRecords(f) = 50

\* C5 as stated: the capacity gate, and in the scenario at most one batch is
\* dispatched.
C5_Original ==
    /\ CapacityGate
    /\ Scenario => Len(dispatched) <= 1

\* C5 as amended: the capacity gate, and in the scenario at most one batch with
\* accepted records is dispatched and it is the last batch dispatched (a batch
\* whose upsert failed adds nothing to the count, so the next one is dispatched).
C5_GateBeforeEachDispatch ==
    /\ CapacityGate
    /\ Scenario =>
          \A k \in 1..Len(returned) :
              returned[k].success > 0 => k = Len(dispatched)

C5_Witness ==
    /\ Scenario
    /\ pc = "done"
    /\ gate_stopped
    /\ Len(batch_files) = 2
    /\ Len(dispatched) = 1
    /\ Len(marks) = 1
    /\ LinesOf(done_file.text) \cap SeqToSet(batch_files) = {batch_files[1]}

C7_MalformedAbortsOnlyBatch ==
    /\ exc # "JSONDecodeError"
    /\ \A f \in SeqToSet(dispatched) : Malformed(f) => f \notin SeqToSet(marks)
    /\ (pc = "done" /\ ~gate_stopped) =>
          \A f \in SeqToSet(batch_files) : ~Malformed(f) => f \in SeqToSet(marks)

\* C8: every name whose append has completed is in what load_completed_batches
\* reads, at every point a run can be interrupted, and the work list of a run
\* (also one that follows an interrupted run) is all batch files minus the
\* names whose append had completed when it started.
C8_InterruptSafe ==
    /\ appended \subseteq load_completed_batches(done_file)
    /\ Discovered =>
          SeqToSet(batch_files) = DOMAIN data_dir \ (appended \ SeqToSet(marks))

C8_Witness ==
    /\ run = 2
    /\ last_outcome = "interrupted"
    /\ pc = "done"
    /\ \E f, g \in DOMAIN data_dir :
          /\ f \in appended
          /\ total_sent[f] > 0
          /\ sent[f] = 0
          /\ batch_files = <<g>>
          /\ marks = <<g>>
          /\ 0 < sent[g]
          /\ sent[g] < total_sent[g]

\* C9: a search-index run that reaches the end has restored the index settings
\* exactly once: refresh and replication are enabled again.
C9_FinalizeOnce ==
    (sink = "es" /\ pc = "done") =>
        /\ finalize_calls = 1
        /\ es_index = NormalSettings

\* C10: no failure of a sink write ends the run: rejected records and transport
\* errors are counted, a run that ends has checkpointed its whole work list
\* unless the capacity gate stopped it, and the errors are in the totals.
C10_WriteFailuresNeverAbort ==
    /\ exc # "TransportError"
    /\ \A k \in 1..Len(returned) :
          returned[k].success + returned[k].errors = NRecords(returned[k].name)
    /\ (pc = "done" /\ ~gate_stopped) => marks = batch_files

\* C11: when a required configuration value is missing (unset or empty), the
\* run fails before it calls the destination, before it reads a batch file and
\* before it writes to the checkpoint store: it never gets past the start of
\* main(), and when it has taken its step it has died of the configuration
\* error.
C11_ConfigCheckedFirst ==
    (run > 0 /\ \E v \in Required(sink) : env[v] # "set") =>
        /\ pc \in {"prepare", "crashed", "interrupted"}
        /\ pc = "crashed" => exc \in {"ValueError", "AttributeError"}
        /\ ~contacted
        /\ es_index \in {NoIndex, NormalSettings}
        /\ dispatched = <<>>
        /\ sent = NoFiles
        /\ marks = <<>>
        /\ done_file.text = <<>>

C11_Witness ==
    /\ pc = "crashed"
    /\ exc = "ValueError"
    /\ \E v \in Required(sink) : env[v] = "empty"
    /\ DOMAIN data_dir # {}
    /\ ~contacted

\* The batch names load_completed_batches returns: its result without the
\* empty string an empty progress file gives.
Entries(file) == load_completed_batches(file) \ {<<>>}

NormalizedAsSpecified(v) ==
    IF IsAscii(v.original_id) THEN v.id = v.original_id
    ELSE /\ Len(v.id) = 36
         /\ SubSeq(v.id, 1, 4) = DocPrefix
         /\ \A j \in 5..36 : v.id[j] \in HexDigits

\* For each file content: every vector load_vectors_from_batch builds carries
\* the id of its record line as original_id and a normalized id as specified.
VectorsAsSpecified ==
    [c \in DOMAIN FileCatalogue |->
        LET items == ReadResult["pc"][c].items
            recs == Records(FileCatalogue[c])
        IN  \A k \in 1..Len(items) :
                /\ items[k].original_id = recs[k].id
                /\ NormalizedAsSpecified(items[k])]

\* C13: every vector of a batch the vector-store program has upserted from
\* carries the original id of its record in original_id, and its id is that id
\* unchanged when it is ASCII and "doc_" plus 32 hexadecimal digits (36
\* characters) when it is not.
C13_IdsNormalized ==
    (sink = "pc" /\ pc \in {"upsert", "ret", "mark", "write"} /\ sent[filepath] > 0) =>
        VectorsAsSpecified[data_dir[filepath]]

C13_Witness ==
    /\ sink = "pc"
    /\ pc = "ret"
    /\ sent[filepath] = 250
    /\ Read(filepath).items[2].id = Read(filepath).items[2].original_id
    /\ Read(filepath).items[3].id # Read(filepath).items[3].original_id
    /\ Read(filepath).items[6].id # Read(filepath).items[6].original_id
    /\ Read(filepath).items[3].id # Read(filepath).items[6].id

\* For each program and file content the program reads to the end: the ids of
\* the lines without a top-level "index" key, in order, are the ids of the
\* records the reader hands on, in order.
ControlLinesSkipped ==
    [s \in {"es", "pc"} |->
        [c \in DOMAIN FileCatalogue |->
            LET NoIndexKey(line) == "index" \notin line.keys
                expected == SelectSeq(FileCatalogue[c], NoIndexKey)
                items == ReadResult[s][c].items
            IN  [count |-> Len(expected),
                 same  |-> /\ Len(items) = Len(expected)
                           /\ \A k \in 1..Len(expected) :
                                 items[k].original_id = expected[k].id]]]

\* C14: when ingest_batch has returned for a batch file, the records it
\* submitted are the lines of the file without those that have a top-level
\* "index" key, as many and in the same order, wherever the control lines are;
\* in both programs.
C14_ControlLinesSkipped ==
    (pc \in {"ret", "mark", "write"}) =>
        /\ ControlLinesSkipped[sink][data_dir[filepath]].same
        /\ sent[filepath] = ControlLinesSkipped[sink][data_dir[filepath]].count

C14_Witness ==
    /\ sink = "es"
    /\ pc = "ret"
    /\ data_dir[filepath] = "controls"
    /\ sent[filepath] = 3
    /\ Len(FileCatalogue["controls"]) = 7

\* The file contents with a line that is not JSON or a record line without
\* "id" or without "embedding".
HasInvalidLine ==
    [c \in DOMAIN FileCatalogue |->
        \E k \in 1..Len(FileCatalogue[c]) :
            LET line == FileCatalogue[c][k]
            IN  \/ ~line.json
                \/ "index" \notin line.keys /\ ~({"id", "embedding"} \subseteq line.keys)]

\* C15: no record of a batch file that has an invalid line is ever submitted,
\* wherever the invalid line is and however many valid records precede it; in
\* both programs.
C15_NoPartialBatch ==
    \A f \in DOMAIN data_dir : HasInvalidLine[data_dir[f]] => sent[f] = 0

\* C15, for the vector-store program alone.
C15_PcLoadsWholeFileFirst ==
    sink = "pc" => C15_NoPartialBatch

\* C15, for a line that is not JSON after more than one chunk of records.
C15_LateBadLine ==
    \A f \in DOMAIN data_dir : data_dir[f] = "longbad" => sent[f] = 0

\* C16: batches are processed strictly one after the other.  At most one
\* dispatched batch is not yet checkpointed, and only while ingest_batch or
\* mark_batch_complete is at work on it; records of a batch have been submitted
\* only if every batch dispatched before it is checkpointed; the batches are
\* dispatched in ascending lexicographic order of their names and the
\* checkpoint entries are appended in that same order, at the end of the store.
C16_StrictlySequential ==
    LET written == TextOf(marks)
        text == done_file.text
    IN  /\ Len(dispatched) - Len(marks) \in {0, 1}
        /\ pc \in {"loop", "finalize", "done"} => Len(dispatched) = Len(marks)
        /\ pc \in {"load", "upsert", "bulk", "ret", "mark", "write"} =>
               Len(dispatched) = Len(marks) + 1
        /\ \A k \in 1..Len(marks) : marks[k] = dispatched[k]
        /\ \A j, k \in 1..Len(dispatched) :
               j < k => LexLess(dispatched[j], dispatched[k])
        /\ \A f \in AllNames :
               sent[f] > 0 =>
                   \E k \in 1..Len(dispatched) :
                       /\ dispatched[k] = f
                       /\ \A j \in 1..(k - 1) : j <= Len(marks)
        /\ Len(written) <= Len(text)
        /\ SubSeq(text, Len(text) - Len(written) + 1, Len(text)) = written

C16_Witness ==
    /\ Len(marks) = 2
    /\ pc = "loop"
    /\ \A f \in DOMAIN data_dir : sent[f] > 0
    /\ LexLess(marks[1], marks[2])
    /\ Len(marks[1]) > Len(marks[2])

\* The records in the sub-batches of n records numbered by S: sub-batch j
\* (from 0) holds records 100 j + 1 .. min(100 j + 100, n).
RECURSIVE RecordsIn(_, _)
RecordsIn(S, n) ==
    IF S = {} THEN 0
    ELSE LET j == CHOOSE x \in S : TRUE
         IN  Min(100, n - 100 * j) + RecordsIn(S \ {j}, n)

\* C17: in the vector-store program the n vectors of a batch go out in
\* consecutive sub-batches of at most 100, each upserted once: after k upserts
\* exactly the first min(100 k, n) vectors have been submitted; every sub-batch
\* is counted as a whole, as successes or as errors; a failed sub-batch does
\* not stop the following ones; when ingest_batch returns all n have been
\* submitted and success_count + error_count = n.
C17_SubBatches ==
    (sink = "pc" /\ pc \in {"upsert", "ret"}) =>
        LET n == ControlLinesSkipped["pc"][data_dir[filepath]].count
            k == off \div 100
        IN  /\ off = 100 * k
            /\ sent[filepath] = Min(100 * k, n)
            /\ success_count + error_count = sent[filepath]
            /\ \E S \in SUBSET (0..(k - 1)) : error_count = RecordsIn(S, n)
            /\ pc = "upsert" => 100 * k < n
            /\ pc = "ret" => sent[filepath] = n /\ 100 * (k - 1) < n

C17_Witness ==
    /\ sink = "pc"
    /\ pc = "ret"
    /\ sent[filepath] = 250
    /\ error_count = 200
    /\ success_count = 50

\* C18 as stated: at the end of any vector-store run the count read at startup
\* plus the records accepted is at most the limit - 1 + the size of the last
\* dispatched batch (nothing, when no batch was dispatched).
C18_Original ==
    (sink = "pc" /\ pc = "done") =>
        current_count + total_success
            <= MAX_VECTORS - 1
               + (IF dispatched = <<>> THEN 0 ELSE NRecords(Last(dispatched)))

\* C18: in a vector-store run that has dispatched a batch, the count read at
\* startup plus the records accepted is never more than the limit - 1 + the
\* size of the last dispatched batch, and when it has reached the limit, the
\* batch whose records took it there is the last one dispatched: without that
\* batch's accepted records the sum is below the limit.
C18_OvershootBounded ==
    (sink = "pc" /\ dispatched # <<>>) =>
        LET last == Last(dispatched)
            of_last == IF Len(returned) = Len(dispatched)
                       THEN Last(returned).success
                       ELSE Accepted - total_success
        IN  /\ of_last <= NRecords(last)
            /\ current_count + Accepted <= MAX_VECTORS - 1 + NRecords(last)
            /\ current_count + Accepted >= MAX_VECTORS =>
                   /\ of_last > 0
                   /\ current_count + Accepted - of_last < MAX_VECTORS

C18_Witness ==
    /\ sink = "pc"
    /\ pc = "done"
    /\ gate_stopped
    /\ current_count = MAX_VECTORS - 30
    /\ total_success = 150
    /\ Len(dispatched) = 1
    /\ Undispatched # {}

\* C19: a batch file whose lines are all JSON and whose record lines all have
\* "id" and "embedding", with or without the optional fields, does not make
\* its reader raise, and when ingest_batch has returned for it all its records
\* have been submitted; in both programs.
C19_OptionalFieldsOptional ==
    \A k \in 1..Len(dispatched) :
        LET f == dispatched[k]
        IN  ~HasInvalidLine[data_dir[f]] =>
                /\ ~(k = Len(dispatched) /\ exc \in {"KeyError", "JSONDecodeError"})
                /\ k <= Len(returned) => sent[f] = NRecords(f)

\* C19, for the search-index program alone.
C19_EsAcceptsBareRecords ==
    sink = "es" => C19_OptionalFieldsOptional

\* Every batch file of the data directory is in the checkpoint store.
AllCheckpointed == DOMAIN data_dir \subseteq load_completed_batches(done_file)

\* A run that started with every batch checkpointed has an empty work list and
\* submits nothing.
NothingLeftToDo ==
    (pc # "idle" /\ DOMAIN data_dir \subseteq store_at_start) =>
        /\ batch_files = <<>>
        /\ dispatched = <<>>
        /\ sent = NoFiles
        /\ marks = <<>>

\* C20: with well-formed batch files and the capacity limit never reached,
\* when the program is run again and again and only finitely many runs are cut
\* short, every batch name is eventually in the checkpoint store and stays
\* there; a run started after that has an empty work list and submits nothing;
\* and every run ends.
C20_EventuallyComplete ==
    (WellFormed /\ []~gate_stopped) =>
        /\ <>[]AllCheckpointed
        /\ []NothingLeftToDo
        /\ [](pc \in Active => <>(pc \in Ended))

C20_Witness ==
    /\ WellFormed
    /\ ~gate_stopped
    /\ Cardinality(DOMAIN data_dir) = 2
    /\ run = 2
    /\ last_outcome = "interrupted"
    /\ store_at_start # {}
    /\ marks # <<>>
    /\ pc = "done"
    /\ AllCheckpointed

====
